---- MODULE Spec2Model ----
(***************************************************************************)
(* Model of src/userprog/syscall.c: the system-call dispatcher of the      *)
(* kernel, its user-memory access helpers and the exit/wait rendezvous on  *)
(* the process control block.                                              *)
(*                                                                         *)
(* Addresses are scaled: the user address space is 0 .. PHYS_BASE-1 and    *)
(* kernel addresses start at PHYS_BASE.  The lowest NullPage addresses of  *)
(* the user space are unmapped.  Words are 4 bytes, little endian, 8 bits  *)
(* per byte, as on the 80x86.                                              *)
(***************************************************************************)
EXTENDS Integers, Sequences, FiniteSets, TLC

\* ------------------------------------------------------------------------
\* Bounds of the model
\* ------------------------------------------------------------------------
PHYS_BASE == 20         \* scaled address-space boundary (threads/vaddr.h)
NullPage == 2           \* user addresses 0 .. NullPage-1 are unmapped
MaxSize == 2            \* largest `size' argument of write that is tried

Procs == {1, 2, 3}      \* the initial process and the processes it can spawn

\* ------------------------------------------------------------------------
\* Program constants (lib/syscall-nr.h, as used in syscall_handler)
\* ------------------------------------------------------------------------
SYS_HALT == 0
SYS_EXIT == 1
SYS_EXEC == 2
SYS_WAIT == 3
SYS_CREATE == 4
SYS_REMOVE == 5
SYS_OPEN == 6
SYS_FILESIZE == 7
SYS_READ == 8
SYS_WRITE == 9
SYS_SEEK == 10
SYS_TELL == 11
SYS_CLOSE == 12

STDOUT_FILENO == 1      \* the only descriptor sys_write serves

\* Values that are not data of the program
UNSET == 0 - 99           \* exitcode of a PCB that sys_exit has not written
NoResult == 0 - 98        \* frame result slot (eax) not written by this trap
GARBAGE == 255 - 51          \* byte of a local variable that was never written

\* ------------------------------------------------------------------------
\* Words and bytes
\* ------------------------------------------------------------------------
Pow256(i) == CASE i = 0 -> 1 [] i = 1 -> 256 [] i = 2 -> 65536 [] OTHER -> 16777216

\* Byte i (0 = least significant) of the two's-complement 32-bit word n.
ByteOf(n, i) ==
  LET m == IF n < 0 THEN (n + 2147483647) + 1 ELSE n
      b == (m \div Pow256(i)) % 256
  IN IF n < 0 /\ i = 3 THEN b + 128 ELSE b

\* The int a kernel local holds after its 4 bytes were stored (little endian).
ToInt(bs) ==
  bs[1] + 256 * bs[2] + 65536 * bs[3]
    + 16777216 * (IF bs[4] >= 128 THEN bs[4] - 256 ELSE bs[4])

\* ------------------------------------------------------------------------
\* User memory as seen by one trap.  A frame f is the trap frame's stack
\* pointer together with the words the user program pushed there:
\* f.no at esp, f.a0 at esp+4, f.a1 at esp+8, f.a2 at esp+12.
\* ------------------------------------------------------------------------
Mapped(a) == a >= NullPage /\ a < PHYS_BASE

StackWord(f, k) == CASE k = 0 -> f.no [] k = 1 -> f.a0 [] k = 2 -> f.a1 [] OTHER -> f.a2

\* Content of the byte at address a (user data outside the pushed words is
\* text, kernel memory holds other bytes).
Memory(f, a) ==
  IF a >= f.esp /\ a < f.esp + 16
    THEN ByteOf(StackWord(f, (a - f.esp) \div 4), (a - f.esp) % 4)
    ELSE IF a < PHYS_BASE THEN 65 + (a % 26) ELSE 128 + (a % 100)

\* ------------------------------------------------------------------------
\* Helper functions on memory access
\* ------------------------------------------------------------------------

\* get_user: -1 for an address not below PHYS_BASE; otherwise the byte read,
\* or -1 when the read page-faults (unmapped user address).
get_user(f, uaddr) ==
  IF ~(uaddr < PHYS_BASE) THEN 0 - 1
  ELSE IF ~Mapped(uaddr) THEN 0 - 1
  ELSE Memory(f, uaddr)

\* The addresses get_user dereferences for uaddr (none when it refuses).
get_user_reads(uaddr) == IF uaddr < PHYS_BASE THEN {uaddr} ELSE {}

\* The loop as it would be if a fault returned the count of bytes read so far
RECURSIVE memread_loop_partial(_, _, _, _, _, _)
memread_loop_partial(f, src, bytes, i, dst, reads) ==
  IF i < bytes
    THEN LET value == get_user(f, src + i)
             rd == reads \cup get_user_reads(src + i)
         IN IF value < 0
              THEN [ret |-> i, dst |-> dst, reads |-> rd]
              ELSE memread_loop_partial(f, src, bytes, i + 1,
                                        [dst EXCEPT ![i + 1] = value % 256], rd)
    ELSE [ret |-> bytes, dst |-> dst, reads |-> reads]

\* memread_user: the loop from byte i on; dst is the destination so far.
RECURSIVE memread_loop(_, _, _, _, _, _)
memread_loop(f, src, bytes, i, dst, reads) ==
  IF i < bytes
    THEN LET value == get_user(f, src + i)
             rd == reads \cup get_user_reads(src + i)
         IN IF value < 0
              THEN [ret |-> 0 - 1, dst |-> dst, reads |-> rd]
              ELSE memread_loop(f, src, bytes, i + 1,
                                [dst EXCEPT ![i + 1] = value % 256], rd)
    ELSE [ret |-> bytes, dst |-> dst, reads |-> reads]

memread_user(f, src, bytes) ==
  memread_loop(f, src, bytes, 0, [k \in 1..bytes |-> GARBAGE], {})

check_addr(uaddr) == IF uaddr > PHYS_BASE THEN FALSE ELSE TRUE

RECURSIVE check_buffer_loop(_, _, _, _, _)
check_buffer_loop(f, buffer, size, i, reads) ==
  IF i < size
    THEN IF ~check_addr(buffer + i)
           THEN [ok |-> FALSE, reads |-> reads]
           ELSE IF get_user(f, buffer + i) < 0
                  THEN [ok |-> FALSE, reads |-> reads \cup get_user_reads(buffer + i)]
                  ELSE check_buffer_loop(f, buffer, size, i + 1,
                                         reads \cup get_user_reads(buffer + i))
    ELSE [ok |-> TRUE, reads |-> reads]

check_buffer(f, buffer, size) == check_buffer_loop(f, buffer, size, 0, {})

\* ------------------------------------------------------------------------
\* System calls.  Each operator gives what the C function does as a record:
\*   kind   how the call leaves the handler: "thread_exit", "sys_exit",
\*          "shutdown_power_off", "process_execute", "process_wait" or
\*          "return" (back to the user program)
\*   at     the source line of the call that ends the handler
\*   status argument of sys_exit;  arg  argument of the collaborator
\*   eax    value stored in f->eax by the handler itself, or NoResult
\*   reads  addresses dereferenced;  out  bytes handed to putbuf
\* ------------------------------------------------------------------------
Outcome(kind, at, status, arg, eax, reads, out) ==
  [kind |-> kind, at |-> at, status |-> status, arg |-> arg, eax |-> eax,
   reads |-> reads, out |-> out]

\* static int fail_invalid_access(void): sys_exit (-1)
fail_invalid_access(at, reads) ==
  Outcome("sys_exit", at, 0 - 1, 0, NoResult, reads, <<>>)

\* int sys_badmemory_access(void): sys_exit (-1)
sys_badmemory_access(at, reads) ==
  Outcome("sys_exit", at, 0 - 1, 0, NoResult, reads, <<>>)

\* putbuf (buffer, size): the console receives the size bytes at buffer.
putbuf(f, buffer, size) == [i \in 1..size |-> Memory(f, buffer + (i - 1))]

\* sys_write as it would be if descriptor 0 were taken for the console
sys_write_fd0(f, fd, buffer, size, reads) ==
  LET rd == reads \cup get_user_reads(buffer)
  IN IF get_user(f, buffer) = 0 - 1
       THEN Outcome("thread_exit", 186, 0, 0, NoResult, rd, <<>>)
       ELSE IF fd = 0
              THEN Outcome("return", 195, 0, 0, size,
                           rd \cup {buffer + (i - 1) : i \in 1..size},
                           putbuf(f, buffer, size))
              ELSE Outcome("false", 200, 0, 0, NoResult, rd, <<>>)

\* sys_write as it would be without the test of the descriptor
sys_write_any_fd(f, fd, buffer, size, reads) ==
  LET rd == reads \cup get_user_reads(buffer)
  IN IF get_user(f, buffer) = 0 - 1
       THEN Outcome("thread_exit", 186, 0, 0, NoResult, rd, <<>>)
       ELSE Outcome("return", 195, 0, 0, size,
                    rd \cup {buffer + (i - 1) : i \in 1..size},
                    putbuf(f, buffer, size))

\* bool sys_write(int fd, const void *buffer, unsigned size, int *ret)
sys_write(f, fd, buffer, size, reads) ==
  LET rd == reads \cup get_user_reads(buffer)
  IN IF get_user(f, buffer) = 0 - 1
       THEN Outcome("thread_exit", 186, 0, 0, NoResult, rd, <<>>)
       ELSE IF fd = STDOUT_FILENO
              THEN Outcome("return", 195, 0, 0, size,
                           rd \cup {buffer + (i - 1) : i \in 1..size},
                           putbuf(f, buffer, size))
              ELSE Outcome("false", 200, 0, 0, NoResult, rd, <<>>)

\* pid_t sys_exec(const char *cmdline)
sys_exec(f, cmdline, reads) ==
  LET rd == reads \cup get_user_reads(cmdline)
  IN IF get_user(f, cmdline) = 0 - 1
       THEN fail_invalid_access(171, rd)
       ELSE Outcome("process_execute", 173, 0, cmdline, NoResult, rd, <<>>)

\* int sys_wait(pid_t pid)
sys_wait(pid, reads) == Outcome("process_wait", 179, 0, pid, NoResult, reads, <<>>)

\* void sys_exit(int status), entered from line `at'
sys_exit(at, status, reads) ==
  Outcome("sys_exit", at, status, 0, NoResult, reads, <<>>)

\* unhandled as it would be if it left the switch without sys_exit
unhandled_returns(syscall_number, reads) ==
  Outcome("return", 138, 0, 0, NoResult, reads, <<>>)

\* unhandled as it would be if it ended the thread without sys_exit
unhandled_thread_exit(syscall_number, reads) ==
  Outcome("thread_exit", 137, 0, 0, NoResult, reads, <<>>)

\* unhandled: / default: of syscall_handler: printf, then sys_exit(-1)
unhandled(syscall_number, reads) == sys_exit(137, 0 - 1, reads)

\* case SYS_EXIT of syscall_handler
case_SYS_EXIT(f, reads) ==
  LET arg == memread_user(f, f.esp + 4, 4)
  IN IF arg.ret = 0 - 1 THEN fail_invalid_access(75, reads \cup arg.reads)
     ELSE sys_exit(77, ToInt(arg.dst), reads \cup arg.reads)

\* case SYS_HALT as it would be if control fell into case SYS_EXIT
case_SYS_HALT_falls_through(f, reads) == case_SYS_EXIT(f, reads)

\* case SYS_HALT of syscall_handler: shutdown_power_off () does not return
case_SYS_HALT(f, reads) ==
  Outcome("shutdown_power_off", 67, 0, 0, NoResult, reads, <<>>)

\* case SYS_WRITE as it would be without the test of the third memread_user
case_SYS_WRITE_size_unchecked(f, reads) ==
  LET r1 == memread_user(f, f.esp + 4, 4)
      r2 == memread_user(f, f.esp + 8, 4)
      r3 == memread_user(f, f.esp + 12, 4)
  IN IF r1.ret = 0 - 1 THEN fail_invalid_access(117, reads \cup r1.reads)
     ELSE IF r2.ret = 0 - 1
       THEN fail_invalid_access(118, reads \cup r1.reads \cup r2.reads)
     ELSE LET w == sys_write(f, ToInt(r1.dst), ToInt(r2.dst), ToInt(r3.dst),
                             reads \cup r1.reads \cup r2.reads \cup r3.reads)
          IN IF w.kind = "false"
               THEN Outcome("thread_exit", 122, 0, 0, NoResult, w.reads, <<>>)
               ELSE w

\* case SYS_WRITE of syscall_handler
case_SYS_WRITE(f, reads) ==
  LET r1 == memread_user(f, f.esp + 4, 4)
      r2 == memread_user(f, f.esp + 8, 4)
      r3 == memread_user(f, f.esp + 12, 4)
  IN IF r1.ret = 0 - 1 THEN fail_invalid_access(117, reads \cup r1.reads)
     ELSE IF r2.ret = 0 - 1
       THEN fail_invalid_access(118, reads \cup r1.reads \cup r2.reads)
     ELSE IF r3.ret = 0 - 1
       THEN fail_invalid_access(119, reads \cup r1.reads \cup r2.reads \cup r3.reads)
     ELSE LET w == sys_write(f, ToInt(r1.dst), ToInt(r2.dst), ToInt(r3.dst),
                             reads \cup r1.reads \cup r2.reads \cup r3.reads)
          IN IF w.kind = "false"
               THEN Outcome("thread_exit", 122, 0, 0, NoResult, w.reads, <<>>)
               ELSE w

\* static void syscall_handler (struct intr_frame *f)
syscall_handler(f) ==
  IF ~check_addr(f.esp)
    THEN Outcome("thread_exit", 53, 0, 0, NoResult, {}, <<>>)
  ELSE LET cb == check_buffer(f, f.esp, 4) IN
  IF ~cb.ok
    THEN sys_badmemory_access(58, cb.reads)
  ELSE LET syscall_number == ToInt([i \in 1..4 |-> Memory(f, f.esp + (i - 1))])
           rd0 == cb.reads \cup {f.esp + i : i \in 0..3}
           arg == memread_user(f, f.esp + 4, 4)
           rd1 == rd0 \cup arg.reads
       IN
  CASE syscall_number = SYS_HALT ->
         case_SYS_HALT(f, rd0)
    [] syscall_number = SYS_EXIT ->
         case_SYS_EXIT(f, rd0)
    [] syscall_number = SYS_EXEC ->
         IF arg.ret = 0 - 1 THEN fail_invalid_access(86, rd1)
         ELSE sys_exec(f, ToInt(arg.dst), rd1)
    [] syscall_number = SYS_WAIT ->
         IF arg.ret = 0 - 1 THEN fail_invalid_access(97, rd1)
         ELSE sys_wait(ToInt(arg.dst), rd1)
    [] syscall_number \in {SYS_CREATE, SYS_REMOVE, SYS_OPEN, SYS_FILESIZE, SYS_READ} ->
         unhandled(syscall_number, rd0)
    [] syscall_number = SYS_WRITE ->
         case_SYS_WRITE(f, rd0)
    [] OTHER ->
         unhandled(syscall_number, rd0)

\* ------------------------------------------------------------------------
\* What user programs can put in a trap frame
\* ------------------------------------------------------------------------
Statuses == {258, 0 - 2}
Opcodes == (SYS_HALT .. SYS_CLOSE) \cup {SYS_CLOSE + 1, 0 - 1}
EspSet == {NullPage - 1, PHYS_BASE - 16, PHYS_BASE - 12, PHYS_BASE - 6,
           PHYS_BASE - 4, PHYS_BASE - 2, PHYS_BASE, PHYS_BASE + 1}
CmdPtrs == {NullPage - 1, PHYS_BASE - 1, PHYS_BASE}
BufPtrs == {NullPage - 1, NullPage, PHYS_BASE - 2, PHYS_BASE - 1, PHYS_BASE, PHYS_BASE + 1}
Fds == {0, STDOUT_FILENO, STDOUT_FILENO + 1}
Pids == Procs \cup {0}

\* Some byte of word k above esp can be read by the kernel.
WordVisible(esp, k) == \E i \in 0..3 : Mapped(esp + 4 * k + i)

Arg0Of(no) == CASE no = SYS_EXIT -> Statuses [] no = SYS_EXEC -> CmdPtrs
                [] no = SYS_WAIT -> Pids [] no = SYS_WRITE -> Fds [] OTHER -> {0}
Arg1Of(no) == IF no = SYS_WRITE THEN BufPtrs ELSE {0}
Arg2Of(no) == IF no = SYS_WRITE THEN 0..MaxSize ELSE {0}

\* Frames, one per distinguishable trap: words nobody can read are 0.
AllFrames ==
  UNION {
    {[esp |-> e, no |-> n, a0 |-> x, a1 |-> y, a2 |-> z] :
       x \in (IF WordVisible(e, 1) THEN Arg0Of(n) ELSE {0}),
       y \in (IF WordVisible(e, 2) THEN Arg1Of(n) ELSE {0}),
       z \in (IF WordVisible(e, 3) THEN Arg2Of(n) ELSE {0})} :
    <<e, n>> \in {en \in EspSet \X Opcodes : WordVisible(en[1], 0) \/ en[2] = 0}}

\* ------------------------------------------------------------------------
\* State
\* ------------------------------------------------------------------------
VARIABLES
  pstate,    \* per process: where its thread is
  pcb,       \* per process: struct process_control_block (exited, exitcode, sema_wait)
  parent,    \* per process: the process whose process_execute created it, 0 for none
  status,    \* per process: the argument of its sys_exit
  exitat,    \* per process: source line of the call that ended its last handler
  waitpid,   \* per process: the pid given to its last sys_wait, 0 for none
  eax,       \* per process: f->eax as left by its last trap, NoResult if unwritten
  halted,    \* the machine was powered off
  last       \* the last trap taken: process, frame, addresses read, console bytes

vars == <<pstate, pcb, parent, status, exitat, waitpid, eax, halted, last>>

NoTrap == [proc |-> 0, f |-> [esp |-> 0, no |-> 0, a0 |-> 0, a1 |-> 0, a2 |-> 0],
           reads |-> {}, out |-> <<>>]

NewPCB == [exited |-> FALSE, exitcode |-> UNSET, sema_wait |-> 0]

Init ==
  /\ pstate = [p \in Procs |-> IF p = 1 THEN "user" ELSE "unborn"]
  /\ pcb = [p \in Procs |-> NewPCB]
  /\ parent = [p \in Procs |-> 0]
  /\ status = [p \in Procs |-> 0]
  /\ exitat = [p \in Procs |-> 0]
  /\ waitpid = [p \in Procs |-> 0]
  /\ eax = [p \in Procs |-> NoResult]
  /\ halted = FALSE
  /\ last = NoTrap

Unborn == {c \in Procs : pstate[c] = "unborn"}

\* tid_t process_execute (const char *): a new process with a fresh PCB and
\* its id, or TID_ERROR (-1) and no process.
process_execute(p, tid) ==
  IF tid = 0 - 1
    THEN /\ pstate' = pstate
         /\ UNCHANGED <<pcb, parent>>
    ELSE /\ pstate' = [pstate EXCEPT ![tid] = "user"]
         /\ pcb' = [pcb EXCEPT ![tid] = NewPCB]
         /\ parent' = [parent EXCEPT ![tid] = p]

\* The traps of a set of frames: each frame with what syscall_handler does.
Traps(F) == {[f |-> f, o |-> syscall_handler(f)] : f \in F}

AllTraps == Traps(AllFrames)

\* The trap t of process p: syscall_handler on frame t.f up to the call that
\* ends it (or to its return).  P is the set of process slots of the
\* machine; the trap is kept in `last' when rec is TRUE.
Syscall(P, p, t, rec) ==
  LET o == t.o
      f == t.f IN
  /\ ~halted
  /\ pstate[p] = "user"
  /\ last' = IF rec THEN [proc |-> p, f |-> f, reads |-> o.reads, out |-> o.out]
                    ELSE NoTrap
  /\ exitat' = [exitat EXCEPT ![p] = o.at]
  /\ waitpid' = [waitpid EXCEPT ![p] = IF o.kind = "process_wait" THEN o.arg ELSE 0]
  /\ status' = [status EXCEPT ![p] = IF o.kind = "sys_exit" THEN o.status ELSE 0]
  /\ CASE o.kind = "thread_exit" ->
            /\ pstate' = [pstate EXCEPT ![p] = "thread_exit"]
            /\ eax' = [eax EXCEPT ![p] = NoResult]
            /\ UNCHANGED <<pcb, parent, halted>>
       [] o.kind = "sys_exit" ->
            /\ pstate' = [pstate EXCEPT ![p] = "sys_exit_154"]
            /\ eax' = [eax EXCEPT ![p] = NoResult]
            /\ UNCHANGED <<pcb, parent, halted>>
       [] o.kind = "shutdown_power_off" ->
            /\ halted' = TRUE
            /\ eax' = [eax EXCEPT ![p] = NoResult]
            /\ UNCHANGED <<pstate, pcb, parent>>
       [] o.kind = "process_execute" ->
            /\ \E tid \in {0 - 1} \cup {c \in Unborn \cap P : \A d \in Unborn \cap P : c <= d} :
                 /\ process_execute(p, tid)
                 /\ eax' = [eax EXCEPT ![p] = tid]
            /\ UNCHANGED halted
       [] o.kind = "process_wait" ->
            /\ pstate' = [pstate EXCEPT ![p] = "process_wait"]
            /\ eax' = [eax EXCEPT ![p] = NoResult]
            /\ UNCHANGED <<pcb, parent, halted>>
       [] o.kind = "return" ->
            /\ eax' = [eax EXCEPT ![p] = o.eax]
            /\ UNCHANGED <<pstate, pcb, parent, halted>>

\* line 154 as it would be if pcb were the PCB of the parent
sys_exit_154_parent_pcb(p) ==
  /\ ~halted
  /\ pstate[p] = "sys_exit_154"
  /\ pcb' = [pcb EXCEPT ![IF parent[p] = 0 THEN p ELSE parent[p]].exited = TRUE]
  /\ pstate' = [pstate EXCEPT ![p] = "sys_exit_155"]
  /\ UNCHANGED <<parent, status, exitat, waitpid, eax, halted, last>>

\* line 154 as it would be if the signal were raised with the flag
sys_exit_154_signal_first(p) ==
  /\ ~halted
  /\ pstate[p] = "sys_exit_154"
  /\ pcb' = [pcb EXCEPT ![p].exited = TRUE, ![p].sema_wait = @ + 1]
  /\ pstate' = [pstate EXCEPT ![p] = "sys_exit_155"]
  /\ UNCHANGED <<parent, status, exitat, waitpid, eax, halted, last>>

\* sys_exit line 154: pcb->exited = true
sys_exit_154(p) ==
  /\ ~halted
  /\ pstate[p] = "sys_exit_154"
  /\ pcb' = [pcb EXCEPT ![p].exited = TRUE]
  /\ pstate' = [pstate EXCEPT ![p] = "sys_exit_155"]
  /\ UNCHANGED <<parent, status, exitat, waitpid, eax, halted, last>>

\* line 155 as it would be if the flag were stored for the status
sys_exit_155_stores_flag(p) ==
  /\ ~halted
  /\ pstate[p] = "sys_exit_155"
  /\ pcb' = [pcb EXCEPT ![p].exitcode = IF pcb[p].exited THEN 1 ELSE 0]
  /\ pstate' = [pstate EXCEPT ![p] = "sys_exit_156"]
  /\ UNCHANGED <<parent, status, exitat, waitpid, eax, halted, last>>

\* line 155 as it would be if the status were not stored
sys_exit_155_not_stored(p) ==
  /\ ~halted
  /\ pstate[p] = "sys_exit_155"
  /\ pstate' = [pstate EXCEPT ![p] = "sys_exit_156"]
  /\ UNCHANGED <<pcb, parent, status, exitat, waitpid, eax, halted, last>>

\* sys_exit line 155: pcb->exitcode = status
sys_exit_155(p) ==
  /\ ~halted
  /\ pstate[p] = "sys_exit_155"
  /\ pcb' = [pcb EXCEPT ![p].exitcode = status[p]]
  /\ pstate' = [pstate EXCEPT ![p] = "sys_exit_156"]
  /\ UNCHANGED <<parent, status, exitat, waitpid, eax, halted, last>>

\* void sema_up (struct semaphore *): one more unit on the semaphore
sema_up(sema) == sema + 1

\* line 156 as it would be if sema_up were called twice
sys_exit_156_twice(p) ==
  /\ ~halted
  /\ pstate[p] = "sys_exit_156"
  /\ pcb' = [pcb EXCEPT ![p].sema_wait = sema_up(sema_up(@))]
  /\ pstate' = [pstate EXCEPT ![p] = "thread_exit"]
  /\ UNCHANGED <<parent, status, exitat, waitpid, eax, halted, last>>

\* line 156 as it would be without the sema_up
sys_exit_156_no_signal(p) ==
  /\ ~halted
  /\ pstate[p] = "sys_exit_156"
  /\ pstate' = [pstate EXCEPT ![p] = "thread_exit"]
  /\ UNCHANGED <<pcb, parent, status, exitat, waitpid, eax, halted, last>>

\* sys_exit line 156: sema_up (&pcb->sema_wait); line 158 is next
sys_exit_156(p) ==
  /\ ~halted
  /\ pstate[p] = "sys_exit_156"
  /\ pcb' = [pcb EXCEPT ![p].sema_wait = sema_up(@)]
  /\ pstate' = [pstate EXCEPT ![p] = "thread_exit"]
  /\ UNCHANGED <<parent, status, exitat, waitpid, eax, halted, last>>

\* thread_exit (): the thread of p is gone; its PCB stays for the parent.
thread_exit(p) ==
  /\ ~halted
  /\ pstate[p] = "thread_exit"
  /\ pstate' = [pstate EXCEPT ![p] = "dead"]
  /\ UNCHANGED <<pcb, parent, status, exitat, waitpid, eax, halted, last>>

IsChild(p, c) == c \in Procs /\ parent[c] = p /\ pstate[c] # "unborn"

\* int process_wait (tid_t): -1 for a pid that is no child of p; otherwise
\* blocks until the child's signal has been raised, then reads its exit code.
\* Line 100 stores the value in f->eax.
process_wait(p) ==
  /\ ~halted
  /\ pstate[p] = "process_wait"
  /\ IF IsChild(p, waitpid[p])
       THEN /\ pcb[waitpid[p]].sema_wait > 0
            /\ eax' = [eax EXCEPT ![p] = pcb[waitpid[p]].exitcode]
       ELSE eax' = [eax EXCEPT ![p] = 0 - 1]
  /\ pstate' = [pstate EXCEPT ![p] = "user"]
  /\ UNCHANGED <<pcb, parent, status, exitat, waitpid, halted, last>>

\* ------------------------------------------------------------------------
\* Spec: a parent and one child, every frame of AllFrames, traps recorded.
\* ------------------------------------------------------------------------
Pair == {1, 2}

Next ==
  \/ \E p \in Pair, t \in AllTraps : Syscall(Pair, p, t, TRUE)
  \/ \E p \in Pair : sys_exit_154(p)
  \/ \E p \in Pair : sys_exit_155(p)
  \/ \E p \in Pair : sys_exit_156(p)
  \/ \E p \in Pair : thread_exit(p)
  \/ \E p \in Pair : process_wait(p)

Spec == Init /\ [][Next]_vars

\* ------------------------------------------------------------------------
\* Life: three processes, one frame for each way out of the handler, traps
\* not recorded.
\* ------------------------------------------------------------------------
LifeFrames ==
  {f \in AllFrames :
     /\ f.esp \in {PHYS_BASE - 16, PHYS_BASE - 4, PHYS_BASE, PHYS_BASE + 1}
     /\ f.no \in {SYS_HALT, SYS_EXIT, SYS_EXEC, SYS_WAIT, SYS_CREATE, SYS_WRITE}
     /\ f.a1 \in {0, PHYS_BASE - 2, PHYS_BASE}
     /\ f.a2 \in {0, 1}
     /\ (f.no = SYS_WRITE /\ f.esp = PHYS_BASE - 16) => (f.a2 = 1 /\ f.a0 # 0)}

LifeTraps == Traps(LifeFrames)

KernelStep(p) ==
  \/ sys_exit_154(p)
  \/ sys_exit_155(p)
  \/ sys_exit_156(p)
  \/ thread_exit(p)
  \/ process_wait(p)

LifeNext ==
  \/ \E p \in Procs, t \in LifeTraps : Syscall(Procs, p, t, FALSE)
  \/ \E p \in Procs : KernelStep(p)

Life == Init /\ [][LifeNext]_vars

\* ------------------------------------------------------------------------
\* LifeFair: three processes that exit, spawn, wait, write and halt, under
\* the scheduler: a thread that is ready inside the kernel is eventually run.
\* ------------------------------------------------------------------------
FairFrames ==
  {f \in LifeFrames :
     /\ f.esp \in {PHYS_BASE - 16, PHYS_BASE + 1}
     /\ f.no \in {SYS_HALT, SYS_EXIT, SYS_EXEC, SYS_WAIT, SYS_WRITE}
     /\ f.no = SYS_EXEC => f.a0 = PHYS_BASE - 1
     /\ f.no = SYS_WAIT => f.a0 # 0
     /\ f.no = SYS_WRITE => (f.a0 = STDOUT_FILENO /\ f.a1 = PHYS_BASE - 2)}

FairTraps == Traps(FairFrames)

FairNext ==
  \/ \E p \in Procs, t \in FairTraps : Syscall(Procs, p, t, FALSE)
  \/ \E p \in Procs : KernelStep(p)

LifeFair == Init /\ [][FairNext]_vars /\ \A p \in Procs : WF_vars(KernelStep(p))

\* ------------------------------------------------------------------------
\* Vocabulary of the properties
\* ------------------------------------------------------------------------

\* Source lines of syscall_handler and its callees that call sys_exit.
SysExitLines == {58, 75, 77, 86, 97, 117, 118, 119, 137, 171}

\* Process p is inside sys_exit, lines 154 to 156.
InSysExit(p) == pstate[p] \in {"sys_exit_154", "sys_exit_155", "sys_exit_156"}

\* Process p is being, or has been, terminated by thread_exit.
Terminated(p) == pstate[p] \in {"thread_exit", "dead"}

\* sys_exit has run for process p up to its thread_exit.
RanSysExit(p) == Terminated(p) /\ exitat[p] \in SysExitLines

\* Process q is blocked in, or has returned from, process_wait on its child c.
Waiting(q, c) == pstate[q] = "process_wait" /\ waitpid[q] = c /\ IsChild(q, c)
Returned(q, c) == pstate[q] = "user" /\ waitpid[q] = c /\ IsChild(q, c)

\* The signal of process c has been raised.
Signalled(c) == pcb[c].sema_wait > 0

\* ------------------------------------------------------------------------
\* C1.  After sys_exit(S) has run for a process its PCB has exited = true and
\* exitcode = S, and a wait of the parent on it, begun before or after the
\* exit, eventually returns S -- unless the machine is powered off first.
\* ------------------------------------------------------------------------
C1_AfterExit ==
  \A p \in Procs : RanSysExit(p) => pcb[p].exited = TRUE /\ pcb[p].exitcode = status[p]

C1_ExitThenWait ==
  /\ []C1_AfterExit
  /\ \A q \in Procs, c \in Procs :
       (Waiting(q, c) /\ RanSysExit(c))
         ~> ((Returned(q, c) /\ eax[q] = status[c]) \/ halted)

\* C1 as stated: the wait eventually returns S, whatever else happens.
C1_AsStated ==
  /\ []C1_AfterExit
  /\ \A q \in Procs, c \in Procs :
       (Waiting(q, c) /\ RanSysExit(c))
         ~> (Returned(q, c) /\ eax[q] = status[c])

C1_Witness ==
  /\ Returned(1, 2) /\ eax[1] = 258 /\ pstate[2] = "dead"
  /\ pcb[2] = [exited |-> TRUE, exitcode |-> 258, sema_wait |-> 1]

\* ------------------------------------------------------------------------
\* C2.  The signal of a PCB is raised only after exited and exitcode have
\* been written, so a wait that has passed the signal holds the exit status
\* of the child and never the initial value.
\* ------------------------------------------------------------------------
C2_SignalAfterWrites ==
  /\ \A c \in Procs :
       Signalled(c) => /\ pcb[c].exited = TRUE
                       /\ pcb[c].exitcode = status[c]
                       /\ pcb[c].exitcode # UNSET
  /\ \A q \in Procs, c \in Procs :
       Returned(q, c) => eax[q] = status[c] /\ eax[q] # UNSET /\ Signalled(c)

C2_Witness ==
  /\ Returned(1, 2) /\ eax[1] = 0 - 2
  /\ pstate[2] = "thread_exit" /\ Signalled(2)

\* ------------------------------------------------------------------------
\* C3.  A wait on a child that has already exited through sys_exit is not
\* blocked (the signal raised before the wait began is still there) and
\* returns the exit code recorded in the PCB.
\* ------------------------------------------------------------------------
C3_WaitAfterExit ==
  \A q \in Procs, c \in Procs :
    /\ (Waiting(q, c) /\ RanSysExit(c)) => Signalled(c) /\ pcb[c].exitcode = status[c]
    /\ (Waiting(q, c) /\ RanSysExit(c) /\ ~halted) => ENABLED process_wait(q)
    /\ (Returned(q, c) /\ RanSysExit(c)) => eax[q] = pcb[c].exitcode

C3_Witness ==
  /\ Waiting(1, 2) /\ pstate[2] = "dead" /\ exitat[2] = 77
  /\ pcb[2].exitcode = 258 /\ eax[1] = NoResult

\* ------------------------------------------------------------------------
\* Vocabulary of the properties about the last trap
\* ------------------------------------------------------------------------

\* Every byte of word k above the stack pointer of frame f is a mapped user
\* byte.
WordReadable(f, k) == \A i \in 0..3 : Mapped(f.esp + 4 * k + i)

\* Every byte of [addr, addr+length) is a mapped user byte (read_range).
RangeValid(addr, length) == \A i \in 0..(length - 1) : Mapped(addr + i)

Implemented == {SYS_HALT, SYS_EXIT, SYS_EXEC, SYS_WAIT, SYS_WRITE}

\* Frame f is a write whose four words can all be read.
IsWrite(f) == f.no = SYS_WRITE /\ \A k \in 0..3 : WordReadable(f, k)

\* Process p left the handler through sys_exit(code): it is in sys_exit or
\* past it, and once past it the PCB holds the code and the signal is raised.
ExitPath(p, code) ==
  /\ InSysExit(p) \/ Terminated(p)
  /\ status[p] = code
  /\ Terminated(p) => /\ pcb[p].exited = TRUE
                      /\ pcb[p].exitcode = code
                      /\ Signalled(p)

\* A parent that waits on the terminated p is not blocked, and one that has
\* returned from the wait holds code.
ParentObserves(p, code) ==
  \A q \in Procs :
    /\ (Waiting(q, p) /\ Terminated(p) /\ ~halted) => ENABLED process_wait(q)
    /\ Returned(q, p) => eax[q] = code

\* ------------------------------------------------------------------------
\* C4.  An opcode other than HALT, EXIT, EXEC, WAIT and WRITE terminates the
\* issuing process through sys_exit(-1): -1 is recorded in its PCB, the
\* signal is raised, and a parent waiting on it observes -1.
\* ------------------------------------------------------------------------
C4_Unimplemented ==
  \A p \in Procs :
    (last.proc = p /\ WordReadable(last.f, 0) /\ last.f.no \notin Implemented)
      => ExitPath(p, 0 - 1) /\ ParentObserves(p, 0 - 1)

C4_Witness ==
  /\ last.proc = 2 /\ last.f.no = SYS_CLOSE + 1 /\ WordReadable(last.f, 0)
  /\ pstate[2] = "dead" /\ Returned(1, 2) /\ eax[1] = 0 - 1

\* ------------------------------------------------------------------------
\* C5.  Every invalid memory access met while a syscall is served (opcode
\* word, argument word, exec command line, write buffer) terminates the
\* process through sys_exit(-1).
\* ------------------------------------------------------------------------
InvalidAccess(f) ==
  \/ ~WordReadable(f, 0)
  \/ f.no \in {SYS_EXIT, SYS_EXEC, SYS_WAIT, SYS_WRITE} /\ ~WordReadable(f, 1)
  \/ f.no = SYS_WRITE /\ (~WordReadable(f, 2) \/ ~WordReadable(f, 3))
  \/ f.no = SYS_EXEC /\ ~Mapped(f.a0)
  \/ f.no = SYS_WRITE /\ ~Mapped(f.a1)

C5_InvalidAccessExits ==
  \A p \in Procs :
    (last.proc = p /\ last.f.esp < PHYS_BASE /\ InvalidAccess(last.f))
      => ExitPath(p, 0 - 1)

\* ------------------------------------------------------------------------
\* C6.  A write to a descriptor other than 1, with a valid buffer, terminates
\* the caller through sys_exit(-1), so that a waiting parent is released and
\* observes -1.
\* ------------------------------------------------------------------------
C6_WriteOtherDescriptor ==
  \A p \in Procs :
    (/\ last.proc = p /\ IsWrite(last.f) /\ last.f.a0 # STDOUT_FILENO
     /\ Mapped(last.f.a1) /\ RangeValid(last.f.a1, last.f.a2))
      => ExitPath(p, 0 - 1) /\ ParentObserves(p, 0 - 1)

\* ------------------------------------------------------------------------
\* C7.  Whatever path terminates a process, its signal is raised before its
\* thread is terminated, so a parent blocked in wait on it is released.
\* ------------------------------------------------------------------------
C7_SignalBeforeTermination ==
  \A p \in Procs :
    /\ Terminated(p) => Signalled(p)
    /\ \A q \in Procs :
         (Waiting(q, p) /\ Terminated(p) /\ ~halted) => ENABLED process_wait(q)

\* ------------------------------------------------------------------------
\* C8.  write on descriptor 1 forwards the bytes and returns the count
\* exactly when every byte of [buffer, buffer+size) is a readable user byte;
\* otherwise nothing is forwarded; a zero-length write returns 0 for any
\* buffer address.
\* ------------------------------------------------------------------------
C8_WriteValidatesRange ==
  \A p \in Procs :
    (last.proc = p /\ IsWrite(last.f) /\ last.f.a0 = STDOUT_FILENO)
      => /\ RangeValid(last.f.a1, last.f.a2)
              <=> (/\ pstate[p] = "user" /\ eax[p] = last.f.a2
                   /\ Len(last.out) = last.f.a2)
         /\ ~RangeValid(last.f.a1, last.f.a2) => last.out = <<>>

\* ------------------------------------------------------------------------
\* C9.  Every address the layer reads or forwards on behalf of the user is
\* strictly below PHYS_BASE.
\* ------------------------------------------------------------------------
C9_ReadsBelowBoundary == \A a \in last.reads : a < PHYS_BASE

\* ------------------------------------------------------------------------
\* C10.  check_addr is true exactly for the addresses strictly below
\* PHYS_BASE: false at PHYS_BASE and above, true at PHYS_BASE - 1 and below.
\* ------------------------------------------------------------------------
C10_CheckAddrStrict ==
  \A p \in Procs :
    last.proc = p =>
      /\ check_addr(last.f.esp) <=> last.f.esp < PHYS_BASE
      /\ exitat[p] # 53 <=> last.f.esp < PHYS_BASE

\* ------------------------------------------------------------------------
\* C11.  A range with some byte at or above PHYS_BASE or unmapped, also one
\* whose first bytes are valid, makes memread_user return -1 and check_buffer
\* return false, and the syscall whose word it is ends in sys_exit(-1) with
\* nothing done on the bytes read so far.
\* ------------------------------------------------------------------------
\* Some argument word that the opcode of frame f needs cannot be read whole.
ArgFault(f) ==
  /\ WordReadable(f, 0)
  /\ \/ f.no \in {SYS_EXIT, SYS_EXEC, SYS_WAIT, SYS_WRITE} /\ ~WordReadable(f, 1)
     \/ f.no = SYS_WRITE /\ (~WordReadable(f, 2) \/ ~WordReadable(f, 3))

C11_RangeRejectedWhole ==
  \A p \in Procs :
    last.proc = p =>
      /\ \A k \in 0..3, n \in 0..4 :
           ~RangeValid(last.f.esp + 4 * k, n)
             => /\ memread_user(last.f, last.f.esp + 4 * k, n).ret = 0 - 1
                /\ check_buffer(last.f, last.f.esp + 4 * k, n).ok = FALSE
      /\ (check_addr(last.f.esp) /\ (~WordReadable(last.f, 0) \/ ArgFault(last.f)))
           => /\ ExitPath(p, 0 - 1)
              /\ eax[p] = NoResult /\ last.out = <<>> /\ waitpid[p] = 0
              /\ exitat[p] \in {58, 75, 86, 97, 117, 118, 119}

C11_Witness ==
  /\ last.proc = 1 /\ last.f.esp = PHYS_BASE - 6 /\ last.f.no = SYS_EXIT
  /\ last.f.a0 = 258 /\ pstate[1] = "dead" /\ pcb[1].exitcode = 0 - 1

\* ------------------------------------------------------------------------
\* C12.  write on descriptor 1 with a buffer of n readable user bytes stores
\* n in the result slot, hands exactly those n bytes, in order, to the
\* console, and the caller resumes.
\* ------------------------------------------------------------------------
C12_ConsoleWrite ==
  \A p \in Procs :
    (/\ last.proc = p /\ IsWrite(last.f) /\ last.f.a0 = STDOUT_FILENO
     /\ Mapped(last.f.a1) /\ RangeValid(last.f.a1, last.f.a2))
      => /\ pstate[p] = "user" /\ exitat[p] = 195
         /\ eax[p] = last.f.a2
         /\ Len(last.out) = last.f.a2
         /\ \A i \in 1..last.f.a2 :
              last.out[i] = Memory(last.f, last.f.a1 + (i - 1))
         /\ pcb[p] = NewPCB

C12_Witness ==
  /\ last.proc = 1 /\ IsWrite(last.f) /\ last.f.a0 = STDOUT_FILENO
  /\ last.f.a1 = NullPage /\ last.f.a2 = 2 /\ last.f.esp > NullPage + 1
  /\ eax[1] = 2 /\ last.out = <<65 + (NullPage % 26), 65 + ((NullPage + 1) % 26)>>

\* ------------------------------------------------------------------------
\* C13.  write on a descriptor other than 1, whatever the length, forwards
\* no byte to the console and stores no count in the result slot; with a
\* readable buffer it is sys_write's failure (false) that ends the handler.
\* ------------------------------------------------------------------------
C13_OtherDescriptorWritesNothing ==
  \A p \in Procs :
    (last.proc = p /\ IsWrite(last.f) /\ last.f.a0 # STDOUT_FILENO)
      => /\ last.out = <<>>
         /\ eax[p] = NoResult
         /\ pstate[p] # "user"
         /\ Mapped(last.f.a1) => exitat[p] = 122

C13_Witness ==
  /\ last.proc = 1 /\ IsWrite(last.f) /\ last.f.a0 = STDOUT_FILENO + 1
  /\ last.f.a1 = PHYS_BASE - 2 /\ last.f.a2 = MaxSize
  /\ exitat[1] = 122 /\ eax[1] = NoResult /\ last.out = <<>>

\* ------------------------------------------------------------------------
\* C14.  In every step, for every process: exited goes only from false to
\* true, an exitcode once assigned is not assigned again, the count of
\* sema_wait only grows and never exceeds 1, and it grows only when the
\* exitcode has been assigned.
\* ------------------------------------------------------------------------
C14_Step ==
  \A p \in Procs :
    /\ pcb[p].exited = TRUE => pcb'[p].exited = TRUE
    /\ pcb[p].exitcode # UNSET => pcb'[p].exitcode = pcb[p].exitcode
    /\ pcb'[p].exitcode # pcb[p].exitcode => pcb'[p].exitcode = status[p]
    /\ pcb'[p].sema_wait >= pcb[p].sema_wait
    /\ pcb'[p].sema_wait <= 1
    /\ pcb'[p].sema_wait > pcb[p].sema_wait
         => pcb[p].exitcode # UNSET /\ pcb[p].exited = TRUE

C14_OneShot == [][C14_Step]_vars

C14_Witness ==
  /\ pstate[2] = "dead" /\ pstate[3] = "dead" /\ pstate[1] = "user"
  /\ pcb[2] = [exited |-> TRUE, exitcode |-> 0 - 2, sema_wait |-> 1]
  /\ pcb[3] = [exited |-> TRUE, exitcode |-> 0 - 1, sema_wait |-> 1]

\* ------------------------------------------------------------------------
\* C15.  sys_exit sets exited = true, then writes exitcode, then raises the
\* signal, one step each: the signal is never raised while exitcode does not
\* hold the exiting status (exited is already true while it does not, between
\* lines 154 and 155).
\* ------------------------------------------------------------------------
C15_ExitOrder ==
  \A p \in Procs :
    /\ pstate[p] = "sys_exit_154" => pcb[p] = NewPCB
    /\ pstate[p] = "sys_exit_155"
         => pcb[p] = [exited |-> TRUE, exitcode |-> UNSET, sema_wait |-> 0]
    /\ pstate[p] = "sys_exit_156"
         => pcb[p] = [exited |-> TRUE, exitcode |-> status[p], sema_wait |-> 0]
    /\ Signalled(p) => pcb[p].exitcode = status[p] /\ pcb[p].exited = TRUE

\* C15 as stated: exitcode is written before exited is set.
C15_CodeBeforeFlag ==
  \A p \in Procs : pcb[p].exited = TRUE => pcb[p].exitcode = status[p]

C15_Witness ==
  /\ pstate[2] = "sys_exit_155" /\ status[2] = 258
  /\ pcb[2].exited = TRUE /\ pcb[2].exitcode = UNSET /\ pcb[2].sema_wait = 0

\* ------------------------------------------------------------------------
\* C16.  A stack pointer that is not strictly below PHYS_BASE ends the
\* process at once: the opcode word is neither probed nor read, no handler
\* and no sys_exit runs, the PCB is not updated and the result slot is not
\* written.
\* ------------------------------------------------------------------------
C16_BadStackPointer ==
  \A p \in Procs :
    (last.proc = p /\ ~(last.f.esp < PHYS_BASE))
      => /\ exitat[p] = 53
         /\ Terminated(p)
         /\ last.reads = {}
         /\ pcb[p] = NewPCB
         /\ eax[p] = NoResult

\* ------------------------------------------------------------------------
\* C17.  A trap ends in one of two ways: the handler stores a result in the
\* result slot and the caller resumes, or the caller does not resume (it is
\* terminated, or the machine is halted) and the result slot is not written.
\* ------------------------------------------------------------------------
C17_TwoOutcomes ==
  \A p \in Procs :
    /\ (pstate[p] = "user" /\ exitat[p] # 0 /\ ~(halted /\ last.proc = p))
         => eax[p] # NoResult /\ exitat[p] \in {100, 173, 179, 195}
    /\ (InSysExit(p) \/ Terminated(p))
         => eax[p] = NoResult /\ exitat[p] \in SysExitLines \cup {53, 122, 186}
    /\ (halted /\ last.proc = p)
         => eax[p] = NoResult /\ exitat[p] = 67 /\ pstate[p] = "user"
    /\ pstate[p] = "process_wait" => eax[p] = NoResult /\ exitat[p] = 179
    /\ last.proc = p
         => \/ pstate[p] = "user" /\ ~halted /\ eax[p] # NoResult
            \/ pstate[p] # "user" /\ eax[p] = NoResult
            \/ pstate[p] = "user" /\ halted /\ eax[p] = NoResult

C17_Witness ==
  /\ last.proc = 2 /\ last.f.no = SYS_TELL /\ pstate[2] = "thread_exit"
  /\ eax[2] = NoResult /\ pstate[1] = "user" /\ eax[1] = 2 /\ exitat[1] = 173

\* ------------------------------------------------------------------------
\* C18.  When an argument word of exit, exec, wait or write cannot be read,
\* nothing is done with the bytes read so far: process_execute, process_wait
\* and putbuf are not called, the exit code recorded is -1 and the process
\* is terminated.
\* ------------------------------------------------------------------------
C18_ArgFaultExits ==
  \A p \in Procs :
    (last.proc = p /\ ArgFault(last.f))
      => /\ ExitPath(p, 0 - 1)
         /\ exitat[p] \in {75, 86, 97, 117, 118, 119}
         /\ last.out = <<>>
         /\ waitpid[p] = 0
         /\ eax[p] = NoResult
         /\ pstate[p] \notin {"user", "process_wait"}
         /\ ~halted

C18_Witness ==
  /\ last.proc = 1 /\ last.f.esp = PHYS_BASE - 12 /\ last.f.no = SYS_WRITE
  /\ last.f.a0 = STDOUT_FILENO /\ last.f.a1 = NullPage
  /\ exitat[1] = 119 /\ pstate[1] = "dead" /\ pcb[1].exitcode = 0 - 1

\* ------------------------------------------------------------------------
\* C19.  HALT requests the shutdown and nothing else: only the opcode word
\* is read, no argument word, the PCB of the caller is left as it was and no
\* exit path runs.
\* ------------------------------------------------------------------------
C19_HaltIsTerminal ==
  \A p \in Procs :
    (last.proc = p /\ WordReadable(last.f, 0) /\ last.f.no = SYS_HALT)
      => /\ halted
         /\ exitat[p] = 67
         /\ last.reads = {last.f.esp + i : i \in 0..3}
         /\ pcb[p] = NewPCB
         /\ pstate[p] = "user" /\ status[p] = 0
         /\ eax[p] = NoResult /\ last.out = <<>>

C19_Witness ==
  /\ last.proc = 2 /\ last.f.no = SYS_HALT /\ last.f.esp = PHYS_BASE - 16
  /\ halted /\ pcb[2] = NewPCB /\ pstate[1] = "process_wait" /\ waitpid[1] = 2

\* ------------------------------------------------------------------------
\* C20.  A step changes the PCB of a process only if it is a step of that
\* process inside its own sys_exit; a trap of a process (wait and exec
\* included) changes the PCB of no other process, and its own only on the
\* exit path.
\* ------------------------------------------------------------------------
C20_Step ==
  \A p \in Procs :
    /\ pcb'[p] # pcb[p]
         => /\ InSysExit(p)
            /\ pstate'[p] # pstate[p]
            /\ \A q \in Procs \ {p} : pstate'[q] = pstate[q] /\ pcb'[q] = pcb[q]
    /\ (pstate[p] \in {"user", "process_wait"} /\ pstate'[p] # pstate[p])
         => pcb' = pcb
    /\ (pstate[p] = "user" /\ (eax'[p] # eax[p] \/ exitat'[p] # exitat[p]))
         => pcb' = pcb

C20_OwnExitOnly == [][C20_Step]_vars

C20_Witness ==
  /\ pstate[1] = "process_wait" /\ waitpid[1] = 2 /\ pstate[3] = "user"
  /\ parent[3] = 2 /\ eax[2] = NoResult /\ pstate[2] = "sys_exit_156"
  /\ pcb[2].exited = TRUE /\ pcb[1] = NewPCB /\ pcb[3] = NewPCB

====
